---- MODULE Spec2Model ----
(***************************************************************************)
(* Model of the p2shd behaviour (p2shd/src/behaviour.rs): the poll-driven  *)
(* locate-and-connect state machine of P2shd, its discovery event handlers *)
(* and the multiaddr-to-host extractor.                                    *)
(*                                                                         *)
(* Time is counted in whole seconds of the system clock (SystemTime).      *)
(* Text is a TLA+ string; conversions (Display of IP addresses, of a       *)
(* multiaddr) are computed, not assumed.                                   *)
(***************************************************************************)
EXTENDS Integers, Sequences, FiniteSets, TLC

VARIABLES
    status,      \* "running" | "exited" | "panicked": the orchestrator process
    exitCode,    \* status passed to std::process::exit, -1 while none
    now,         \* reading of the system clock (SystemTime::now()), seconds
    querying,    \* P2shd.querying: timestamp of the last issued lookup
    waker,       \* P2shd.waker: "None" | "Some"
    woken,       \* TRUE iff the waker stored by the last poll was invoked
    cache,       \* set of known addresses per peer (what addresses_of_peer sees)
    pc,          \* "idle" | "dispatch": position of poll between handlers
    pending,     \* node_addrs not yet spawned in the running dispatch
    children,    \* the Vec `children` of the dispatch running or just ended
    waitIdx,     \* index of the next child the wait loop looks at
    success,     \* the local `success` of the dispatch running or just ended
    pollResult,  \* what poll returned, if poll is the call that has just ended
    lookups,     \* clock readings at which get_closest_peers was called
    completed,   \* TRUE once some poll has returned Ready(GenerateEvent(()))
    mdnsInit,    \* "Ok" | "Err": what Mdns::new() returned in P2shd::new
    wakerOf,     \* which call's waker P2shd.waker holds, NoWaker for None
    tracing,     \* whether the calls of the event handlers are observed
    trace,       \* the calls made by the event handler that has just run, in
                 \* order, if they are observed
    reported,    \* addresses the discovery events have reported for the target
    identified,  \* listen addresses of the target the identify handler has added
    m_addr,      \* extractor harness: the multiaddr under test
    extracted    \* extractor harness: result of host_addr_from_multiaddr

vars == <<status, exitCode, now, querying, waker, woken, cache, pc, pending,
          children, waitIdx, success, pollResult, lookups, completed,
          mdnsInit, tracing, wakerOf, trace, reported, identified,
          m_addr, extracted>>

orchVars == <<status, exitCode, now, querying, waker, woken, cache, pc,
              pending, children, waitIdx, success, pollResult, lookups,
              completed, mdnsInit, tracing, wakerOf, trace, reported, identified>>

extractVars == <<m_addr, extracted>>

-----------------------------------------------------------------------------
(* Bounds of the model.                                                    *)

\* last clock reading explored
MaxTime == 12
\* maximal number of addresses kept per peer
MaxAddrs == 3
\* maximal length of the list carried by one discovery / identify event
MaxList == 1
\* maximal number of components of a multiaddr drawn for the extractor
MaxComponents == 3

-----------------------------------------------------------------------------
(* Program constants.                                                      *)

\* Duration::from_secs(2) in get_querying
Cooldown == 2
\* Duration::from_secs(10) subtracted from now() in P2shd::new
InitialBackdate == 10
\* clock reading at construction
StartTime == 10

-----------------------------------------------------------------------------
(* Text conversions.                                                       *)

DecDigit(d) == SubSeq("0123456789", d + 1, d + 1)

HexDigit(d) == SubSeq("0123456789abcdef", d + 1, d + 1)

RECURSIVE Dec(_)
\* Display of an unsigned integer
Dec(n) == IF n < 10 THEN DecDigit(n) ELSE Dec(n \div 10) \o DecDigit(n % 10)

RECURSIVE Hex(_)
\* {:x} of an unsigned integer
Hex(n) == IF n < 16 THEN HexDigit(n) ELSE Hex(n \div 16) \o HexDigit(n % 16)

\* Display of std::net::Ipv4Addr: dotted quad
FmtIp4(o) == Dec(o[1]) \o "." \o Dec(o[2]) \o "." \o Dec(o[3]) \o "." \o Dec(o[4])

RECURSIVE JoinHex(_, _, _)
\* segments g[from..to] in hex, separated by ':'
JoinHex(g, from, to) ==
    IF from > to THEN ""
    ELSE IF from = to THEN Hex(g[from])
    ELSE Hex(g[from]) \o ":" \o JoinHex(g, from + 1, to)

\* length of the run of zero segments of g starting at i
ZeroRun(g, i) ==
    IF g[i] # 0 THEN 0
    ELSE LET ends == {j \in i..8 : \A k \in i..j : g[k] = 0}
         IN  Cardinality(ends)

\* Display of std::net::Ipv6Addr (no embedded IPv4 form): the first longest
\* run of at least two zero segments is written "::"
FmtIp6(g) ==
    LET best  == CHOOSE i \in 1..8 :
                    /\ \A j \in 1..8 : ZeroRun(g, j) <= ZeroRun(g, i)
                    /\ \A j \in 1..(i - 1) : ZeroRun(g, j) < ZeroRun(g, i)
        len   == ZeroRun(g, best)
    IN  IF len > 1
        THEN JoinHex(g, 1, best - 1) \o "::" \o JoinHex(g, best + len, 8)
        ELSE JoinHex(g, 1, 8)

\* str::contains
Contains(s, sub) ==
    \E i \in 1..(Len(s) - Len(sub) + 1) : SubSeq(s, i, i + Len(sub) - 1) = sub

-----------------------------------------------------------------------------
(* Multiaddr components (multiaddr::Protocol).                             *)

Ip4(o) == [k |-> "ip4", n |-> o, s |-> ""]

Ip6(g) == [k |-> "ip6", n |-> g, s |-> ""]

Dns4(h) == [k |-> "dns4", n |-> <<>>, s |-> h]

Dns6(h) == [k |-> "dns6", n |-> <<>>, s |-> h]

Dnsaddr(h) == [k |-> "dnsaddr", n |-> <<>>, s |-> h]

Tcp(p) == [k |-> "tcp", n |-> <<p>>, s |-> ""]

Udp(p) == [k |-> "udp", n |-> <<p>>, s |-> ""]

P2p(id) == [k |-> "p2p", n |-> <<>>, s |-> id]

\* Option<String> as a record: some = FALSE is None
None == [some |-> FALSE, v |-> ""]

Some(v) == [some |-> TRUE, v |-> v]

to_host_addr_tcpAsHost(p) ==
    CASE p.k = "dnsaddr" -> Some(p.s)
      [] p.k = "dns6"    -> Some(p.s)
      [] p.k = "dns4"    -> Some(p.s)
      [] p.k = "ip4"     -> Some(FmtIp4(p.n))
      [] p.k = "ip6"     -> Some(FmtIp6(p.n))
      [] p.k = "tcp"     -> Some("tcp")
      [] OTHER           -> None

to_host_addr_dropDns6(p) ==
    CASE p.k = "dnsaddr" -> Some(p.s)
      [] p.k = "dns4"    -> Some(p.s)
      [] p.k = "ip4"     -> Some(FmtIp4(p.n))
      [] p.k = "ip6"     -> Some(FmtIp6(p.n))
      [] OTHER           -> None

to_host_addr(p) ==
    CASE p.k = "dnsaddr" -> Some(p.s)
      [] p.k = "dns6"    -> Some(p.s)
      [] p.k = "dns4"    -> Some(p.s)
      [] p.k = "ip4"     -> Some(FmtIp4(p.n))
      [] p.k = "ip6"     -> Some(FmtIp6(p.n))
      [] OTHER           -> None

RECURSIVE FilterMapHost(_)
\* m_addr.iter().filter_map(to_host_addr).collect::<Vec<String>>()
FilterMapHost(m) ==
    IF m = <<>> THEN <<>>
    ELSE LET h == to_host_addr(Head(m))
         IN  IF h.some THEN <<h.v>> \o FilterMapHost(Tail(m))
             ELSE FilterMapHost(Tail(m))

\* Result<String>: tag "Ok" carries the host in val
host_addr_from_multiaddr(m) ==
    LET ips == FilterMapHost(m)
    IN  CASE Len(ips) = 0 -> [tag |-> "NoIPAddrInMultiaddr", val |-> ""]
          [] Len(ips) = 1 -> [tag |-> "Ok", val |-> ips[1]]
          [] OTHER        -> [tag |-> "MultipleIPAddrInMultiaddr", val |-> ""]

-----------------------------------------------------------------------------
(* Peers and the addresses the discovery sources may report.               *)

\* P2shd.remote_peer: the peer we are supposed to connect to
remote_peer == "T"

\* some peer that is not the target
other_peer == "O"

Peers == {remote_peer, other_peer}

\* the multiaddrs that occur in events; the cache holds indices into it
AddrTable ==
    << <<Ip4(<<203, 0, 113, 5>>), Tcp(22)>>,
       <<Ip4(<<127, 0, 0, 1>>), Tcp(4001)>>,
       <<Ip6(<<0, 0, 0, 0, 0, 0, 0, 1>>), Tcp(4001)>>,
       <<Dns4("localhost"), Tcp(22)>>,
       <<Tcp(4001)>>,
       <<Dnsaddr("example.org"), Ip4(<<10, 0, 0, 9>>), Tcp(22)>>,
       <<Ip4(<<203, 0, 113, 5>>), Tcp(2222)>>,
       <<Ip4(<<10, 0, 0, 9>>), Tcp(4001)>> >>

\* what local discovery may report: (peer, address) pairs
MdnsReports ==
    << <<remote_peer, 1>>, <<remote_peer, 2>>, <<remote_peer, 4>>,
       <<remote_peer, 7>>, <<other_peer, 8>> >>

\* the addresses the DHT may report for the peer p
KadAddrs(p) == IF p = remote_peer THEN {5, 6, 8} ELSE {8}

\* the listen addresses the peer p may announce in an identify message
ListenAddrs(p) == IF p = remote_peer THEN {2, 3} ELSE {2, 8}

\* Display of one multiaddr component: "/name/value"
ProtocolToString(p) ==
    CASE p.k = "ip4" -> "/ip4/" \o FmtIp4(p.n)
      [] p.k = "ip6" -> "/ip6/" \o FmtIp6(p.n)
      [] p.k \in {"tcp", "udp"} -> "/" \o p.k \o "/" \o Dec(p.n[1])
      [] OTHER -> "/" \o p.k \o "/" \o p.s

RECURSIVE MultiaddrToString(_)
\* Display of a multiaddr
MultiaddrToString(m) ==
    IF m = <<>> THEN ""
    ELSE ProtocolToString(Head(m)) \o MultiaddrToString(Tail(m))

\* all orders in which the set S can be iterated
Orders(S) ==
    {q \in [1..Cardinality(S) -> S] : \A i, j \in DOMAIN q : i # j => q[i] # q[j]}

add_address_replace(c, peer_id, a) == [c EXCEPT ![peer_id] = {a}]

\* kad.add_address(peer_id, addr) on the cache c
add_address(c, peer_id, a) == [c EXCEPT ![peer_id] = @ \cup {a}]

-----------------------------------------------------------------------------
(* P2shd::poll, lines 117-141: waker, throttle, lookup.                    *)

get_querying_long(q, n) == [ok |-> n >= q, val |-> n - q < Cooldown * 6]

get_querying_short(q, n) == [ok |-> n >= q, val |-> n - q < Cooldown - 1]

\* get_querying: Err when the clock reads earlier than `querying`,
\* else Ok(elapsed < 2s)
get_querying(q, n) == [ok |-> n >= q, val |-> n - q < Cooldown]

NotLoopback_forgetV6(a) == a # "127.0.0.1" /\ a # "localhost"

\* the closure of .filter() at line 145
NotLoopback(a) == a # "127.0.0.1" /\ a # "::1" /\ a # "localhost"

\* host_addr_from_multiaddr of every multiaddr of AddrTable
HostResult == [a \in DOMAIN AddrTable |-> host_addr_from_multiaddr(AddrTable[a])]

RECURSIVE node_addrs_stopAtError(_)
node_addrs_stopAtError(cached) ==
    IF cached = <<>> THEN <<>>
    ELSE LET h == HostResult[Head(cached)]
         IN  IF h.tag # "Ok" THEN <<>>
             ELSE IF NotLoopback(h.val)
             THEN <<h.val>> \o node_addrs_stopAtError(Tail(cached))
             ELSE node_addrs_stopAtError(Tail(cached))

RECURSIVE node_addrs(_)
\* cached.iter().filter_map(|x| host_addr_from_multiaddr(x).ok()).filter(..)
node_addrs(cached) ==
    IF cached = <<>> THEN <<>>
    ELSE LET h == HostResult[Head(cached)]
         IN  IF h.tag = "Ok" /\ NotLoopback(h.val)
             THEN <<h.val>> \o node_addrs(Tail(cached))
             ELSE node_addrs(Tail(cached))

\* the call that has just ended leaves nothing behind for the next one
ForgetLastCall ==
    /\ children' = <<>>
    /\ pending' = <<>>
    /\ waitIdx' = 1
    /\ success' = FALSE
    /\ pollResult' = "None"

\* a call an event handler makes, as it appears in `trace`: its name, the
\* peer it is about ("" if none) and the address it carries (0 if none)
Call(name, peer_id, a) == <<name, peer_id, a>>

\* the calls tr of a handler as they are observed
Observed(tr) == IF tracing THEN tr ELSE <<>>

\* what the waker slot may hold: nothing, the waker of the Context of the
\* latest call of poll, or the waker of the Context of an earlier call
NoWaker == 0

CurrentWaker == 1

EarlierWaker == 2

\* when poll is called, the waker the slot holds is that of an earlier call
Aged(slot) == IF slot = NoWaker THEN NoWaker ELSE EarlierWaker

store_waker_keepOld(old, w) == IF old # NoWaker THEN old ELSE w

\* line 119: self.waker = Some(cx.waker().clone()), the slot afterwards
store_waker(old, w) == w

should_query_or(cached, still_querying) == cached = {} \/ ~still_querying

\* the condition at line 128
should_query(cached, still_querying) == cached = {} /\ ~still_querying

set_querying_keep(q, n) == q

\* line 130: self.querying = SystemTime::now(), with the timestamp q so far
set_querying(q, n) == n

addresses_of_peer_take(c, peer_id) ==
    [cached |-> c[peer_id], cache |-> [c EXCEPT ![peer_id] = {}]]

\* line 120: self.addresses_of_peer(&remote_peer) on the cache c: what it
\* returns and the cache afterwards
addresses_of_peer(c, peer_id) == [cached |-> c[peer_id], cache |-> c]

\* P2shd::poll up to the end of the first two branches, and the entry of
\* the third one.  The clock readings of elapsed() (line 123) and of
\* SystemTime::now() (line 130) fall in the same second `now`.
poll ==
    /\ status = "running"
    /\ pc = "idle"
    /\ waker' = "Some"
    /\ woken' = FALSE
    /\ wakerOf' = store_waker(Aged(wakerOf), CurrentWaker)
    /\ children' = <<>>
    /\ waitIdx' = 1
    /\ success' = FALSE
    /\ LET still_querying == get_querying(querying, now)
       IN  IF ~still_querying.ok
           THEN \* .expect("Querying elapsed time failed") panics
                /\ status' = "panicked"
                /\ pollResult' = "Panic"
                /\ pending' = <<>>
                /\ trace' = <<>>
                /\ UNCHANGED <<querying, lookups, pc>>
           ELSE IF should_query(addresses_of_peer(cache, remote_peer).cached,
                                still_querying.val)
           THEN /\ querying' = set_querying(querying, now)
                /\ lookups' = Append(lookups, now)
                /\ trace' = <<>>
                /\ pollResult' = "Pending"
                /\ pending' = <<>>
                /\ UNCHANGED <<status, pc>>
           ELSE IF still_querying.val
           THEN /\ pollResult' = "Pending"
                /\ pending' = <<>>
                /\ trace' = <<>>
                /\ UNCHANGED <<status, querying, lookups, pc>>
           ELSE \E cached \in Orders(addresses_of_peer(cache, remote_peer).cached) :
                /\ pending' = node_addrs(cached)
                /\ pc' = "dispatch"
                /\ pollResult' = "None"
                /\ trace' = <<>>
                /\ UNCHANGED <<status, querying, lookups>>
    /\ cache' = addresses_of_peer(cache, remote_peer).cache
    /\ UNCHANGED <<exitCode, now, completed, mdnsInit, tracing, reported,
                   identified, extractVars>>

-----------------------------------------------------------------------------
(* P2shd::poll, lines 142-171: the connect commands.                       *)

\* Command::new("ssh").arg(&addr).spawn() paired with addr; a spawned
\* command runs until it exits; code is what h.wait() returned, -1 before
Child(addr, r) ==
    [addr |-> addr, r |-> r, st |-> IF r = "Ok" THEN "running" ELSE "failed",
     code |-> -1]

rest_of_node_addrs_abortOnErr(p, r) == IF r = "Err" THEN <<>> ELSE Tail(p)

\* what the loop at line 148 still has to iterate after spawning for Head(p)
rest_of_node_addrs(p, r) == Tail(p)

\* one iteration of the loop at lines 148-154
Spawn ==
    /\ status = "running"
    /\ pc = "dispatch"
    /\ pending # <<>>
    /\ \E r \in {"Ok", "Err"} :
          /\ children' = Append(children, Child(Head(pending), r))
          /\ pending' = rest_of_node_addrs(pending, r)
    /\ UNCHANGED <<status, exitCode, now, querying, waker, woken, cache, pc,
                   waitIdx, success, pollResult, lookups, completed, mdnsInit,
                   tracing, wakerOf, trace, reported, identified, extractVars>>

\* a running connect command ends on its own
ChildExit ==
    /\ status = "running"
    /\ \E i \in DOMAIN children :
          /\ children[i].st = "running"
          /\ children' = [children EXCEPT ![i].st = "exited"]
    /\ UNCHANGED <<status, exitCode, now, querying, waker, woken, cache, pc,
                   pending, waitIdx, success, pollResult, lookups, completed,
                   mdnsInit, tracing, wakerOf, trace, reported, identified,
                   extractVars>>

match_r_lastWins(c, succ) == c.r = "Ok"

\* the match at lines 157-165: the value of `success` after it
match_r(c, succ) == IF c.r = "Ok" THEN TRUE ELSE succ

wait_returns_atOnce(c) == TRUE

\* line 159: h.wait() returns once the command c has exited
wait_returns(c) == c.st = "exited"

\* one iteration of the loop at lines 156-166; h.wait() blocks until the
\* command has exited and returns its exit status, which is dropped
Wait ==
    /\ status = "running"
    /\ pc = "dispatch"
    /\ pending = <<>>
    /\ waitIdx <= Len(children)
    /\ IF children[waitIdx].r = "Ok"
       THEN /\ wait_returns(children[waitIdx])
            /\ \E code \in {0, 255} :
                  children' = [children EXCEPT ![waitIdx].code = code]
       ELSE UNCHANGED children
    /\ success' = match_r(children[waitIdx], success)
    /\ waitIdx' = waitIdx + 1
    /\ UNCHANGED <<status, exitCode, now, querying, waker, woken, cache, pc,
                   pending, pollResult, lookups, completed, mdnsInit,
                   tracing, wakerOf, trace, reported, identified, extractVars>>

\* lines 167-170: exit(0) on success, else Ready(GenerateEvent(()))
Finish ==
    /\ status = "running"
    /\ pc = "dispatch"
    /\ pending = <<>>
    /\ waitIdx > Len(children)
    /\ pc' = "idle"
    /\ IF success
       THEN /\ status' = "exited"
            /\ exitCode' = 0
            /\ pollResult' = "Exit"
            /\ UNCHANGED completed
       ELSE /\ pollResult' = "Ready"
            /\ completed' = TRUE
            /\ UNCHANGED <<status, exitCode>>
    /\ UNCHANGED <<now, querying, waker, woken, cache, pending, children,
                   waitIdx, success, lookups, mdnsInit, tracing, wakerOf, trace,
                   reported, identified, extractVars>>

-----------------------------------------------------------------------------
(* Discovery and identify events.                                          *)

wake_on_found_dropWaker(peer_id, w) ==
    IF peer_id = remote_peer
    THEN [waker |-> "None", woke |-> FALSE]
    ELSE [waker |-> w, woke |-> FALSE]

wake_on_found_noClear(peer_id, w) ==
    [waker |-> w, woke |-> (peer_id = remote_peer /\ w = "Some")]

\* P2shd::wake_on_found on the waker slot w: the slot afterwards and
\* whether a waker was invoked
wake_on_found(peer_id, w) ==
    IF peer_id = remote_peer
    THEN [waker |-> "None", woke |-> (w = "Some")]
    ELSE [waker |-> w, woke |-> FALSE]

\* the calls of one wake_on_found(peer_id) whose outcome is w
WakeCalls(peer_id, w) ==
    <<Call("wake_on_found", peer_id, 0)>>
        \o (IF w.woke THEN <<Call("wake", "", 0)>> ELSE <<>>)

mdns_pair_wakeFirst(pair, st) ==
    LET peer_id == pair[1]
        w == wake_on_found(peer_id, st.waker)
        c == add_address(st.cache, peer_id, pair[2])
    IN  [cache |-> c, waker |-> w.waker, woken |-> st.woken \/ w.woke,
         trace |-> st.trace \o WakeCalls(peer_id, w)
                       \o <<Call("add_address", peer_id, pair[2]),
                            Call("bootstrap", "", 0)>>]

\* one iteration of the loop at lines 195-200 on the state
\* st = [cache, waker, woken, trace]
mdns_pair(pair, st) ==
    LET peer_id == pair[1]
        c == add_address(st.cache, peer_id, pair[2])
        \* self.kad.bootstrap() changes nothing modelled here
        w == wake_on_found(peer_id, st.waker)
    IN  [cache |-> c, waker |-> w.waker, woken |-> st.woken \/ w.woke,
         trace |-> st.trace \o <<Call("add_address", peer_id, pair[2]),
                                 Call("bootstrap", "", 0)>>
                           \o WakeCalls(peer_id, w)]

RECURSIVE mdns_discovered(_, _)
\* the loop of inject_event(MdnsEvent::Discovered(list))
mdns_discovered(list, st) ==
    IF list = <<>> THEN st
    ELSE mdns_discovered(Tail(list), mdns_pair(Head(list), st))

\* the addresses a list of (peer, address) pairs reports for the target
TargetAddrs(list) ==
    {list[i][2] : i \in {j \in DOMAIN list : list[j][1] = remote_peer}}

\* the waker slot holds the same waker as before unless it was emptied
SlotAfter(w) == IF w = "None" THEN NoWaker ELSE wakerOf

\* the lists an event may carry: 1..MaxList distinct elements of the set of
\* numbers S, in increasing order (a repeated element is handled like a
\* second event, and the handlers do not depend on the order)
Lists(S) ==
    {q \in UNION {[1..n -> S] : n \in 1..MaxList} :
        \A i, j \in DOMAIN q : i < j => q[i] < q[j]}

\* the lists a local-discovery event may carry, as indices of MdnsReports
MdnsLists == Lists(DOMAIN MdnsReports)

\* the lists of addresses a DHT discovery event may carry for each peer
KadLists == [p \in Peers |-> Lists(KadAddrs(p))]

\* the lists of listen addresses an identify message of each peer may carry
ListenLists == [p \in Peers |-> Lists(ListenAddrs(p))]

\* the cache stays within the bound of the model
InBound(c) == \A p \in Peers : Cardinality(c[p]) <= MaxAddrs

\* inject_event(MdnsEvent)
inject_event_mdns ==
    /\ status = "running"
    /\ pc = "idle"
    /\ \E ids \in MdnsLists :
          LET list == [i \in DOMAIN ids |-> MdnsReports[ids[i]]]
              st == mdns_discovered(list, [cache |-> cache, waker |-> waker,
                                           woken |-> woken, trace |-> <<>>])
          IN  /\ InBound(st.cache)
              /\ cache' = st.cache
              /\ waker' = st.waker
              /\ wakerOf' = SlotAfter(st.waker)
              /\ woken' = st.woken
              /\ trace' = Observed(st.trace)
              /\ reported' = reported \cup TargetAddrs(list)
    /\ ForgetLastCall
    /\ UNCHANGED <<status, exitCode, now, querying, pc, lookups, completed,
                   mdnsInit, tracing, identified, extractVars>>

\* inject_event(KademliaEvent::Discovered): Kademlia knows the addresses
\* it reports (they are in addresses_of_peer when the event is delivered);
\* the handler itself only wakes
inject_event_kad ==
    /\ status = "running"
    /\ pc = "idle"
    /\ \E peer_id \in Peers :
       \E addresses \in KadLists[peer_id] :
          LET c == [cache EXCEPT ![peer_id] =
                        @ \cup {addresses[i] : i \in DOMAIN addresses}]
              w == wake_on_found(peer_id, waker)
          IN  /\ InBound(c)
              /\ cache' = c
              /\ waker' = w.waker
              /\ wakerOf' = SlotAfter(w.waker)
              /\ woken' = (woken \/ w.woke)
              /\ trace' = Observed(WakeCalls(peer_id, w))
              /\ reported' = IF peer_id = remote_peer
                             THEN reported \cup {addresses[i] : i \in DOMAIN addresses}
                             ELSE reported
    /\ ForgetLastCall
    /\ UNCHANGED <<status, exitCode, now, querying, pc, lookups, completed,
                   mdnsInit, tracing, identified, extractVars>>

valid_addr_all(a) == TRUE

\* the filter at line 242
valid_addr(a) == ~Contains(MultiaddrToString(AddrTable[a]), "127.0.0.1")

\* valid_addr of every multiaddr of AddrTable
ValidAddrs == {a \in DOMAIN AddrTable : valid_addr(a)}

\* the arm IdentifyEvent::Received { peer_id, info, .. } with the
\* info.listen_addrs of the message: lines 242-245
identify_received(peer_id, listen_addrs) ==
    LET valid_addrs == SelectSeq(listen_addrs, valid_addr)
        c == [cache EXCEPT ![peer_id] =
                  @ \cup {valid_addrs[i] : i \in DOMAIN valid_addrs}]
    IN  /\ InBound(c)
        /\ cache' = c
        /\ trace' = Observed([i \in DOMAIN valid_addrs |->
                         Call("add_address", peer_id, valid_addrs[i])])
        /\ identified' = IF peer_id = remote_peer
                         THEN identified \cup {valid_addrs[i] : i \in DOMAIN valid_addrs}
                         ELSE identified

\* inject_event(IdentifyEvent::Received)
inject_event_identify ==
    /\ status = "running"
    /\ pc = "idle"
    /\ \E peer_id \in Peers :
       \E listen_addrs \in ListenLists[peer_id] :
          identify_received(peer_id, listen_addrs)
    /\ ForgetLastCall
    /\ UNCHANGED <<status, exitCode, now, querying, waker, woken, pc, lookups,
                   completed, mdnsInit, tracing, wakerOf, reported, extractVars>>

\* every other event of the three sources (MdnsEvent::Expired, the `_`
\* arms): logged only
inject_event_other ==
    /\ status = "running"
    /\ pc = "idle"
    /\ ForgetLastCall
    /\ trace' = <<>>
    /\ UNCHANGED <<status, exitCode, now, querying, waker, woken, cache, pc,
                   lookups, completed, mdnsInit, tracing, wakerOf, reported,
                   identified, extractVars>>

-----------------------------------------------------------------------------
(* The system clock.  poll reads it only before the dispatch, so the time  *)
(* a dispatch takes is accounted for by the ticks after poll has returned. *)

Tick ==
    /\ status = "running"
    /\ pc = "idle"
    /\ now < MaxTime
    /\ now' = now + 1
    /\ ForgetLastCall
    /\ trace' = <<>>
    /\ UNCHANGED <<status, exitCode, querying, waker, woken, cache, pc,
                   lookups, completed, mdnsInit, tracing, wakerOf, reported,
                   identified, extractVars>>

\* SystemTime is not monotonic: the clock may be set back
ClockStepBack ==
    /\ status = "running"
    /\ pc = "idle"
    /\ now > StartTime
    /\ now' = now - 1
    /\ ForgetLastCall
    /\ trace' = <<>>
    /\ UNCHANGED <<status, exitCode, querying, waker, woken, cache, pc,
                   lookups, completed, mdnsInit, tracing, wakerOf, reported,
                   identified, extractVars>>

-----------------------------------------------------------------------------
(* The orchestrator.                                                       *)

new_status_ignoreErr(mdns) == "running"

\* line 79: Mdns::new().map_err(error::P2shd::MdnsInitialization)? returns
\* the error from P2shd::new, and then there is no P2shd
new_status(mdns) == IF mdns = "Ok" THEN "running" ELSE "MdnsInitialization"

initial_querying_now(t) == t

\* line 87: querying: SystemTime::now() - Duration::from_secs(10)
initial_querying(t) == t - InitialBackdate

\* P2shd::new: waker None, querying = now - 10s; nothing known of the target
new ==
    /\ mdnsInit \in {"Ok", "Err"}
    /\ status = new_status(mdnsInit)
    /\ wakerOf = NoWaker
    /\ trace = <<>>
    /\ reported = {}
    /\ identified = {}
    /\ exitCode = -1
    /\ now = StartTime
    /\ querying = initial_querying(StartTime)
    /\ waker = "None"
    /\ woken = FALSE
    /\ cache = [p \in Peers |-> {}]
    /\ pc = "idle"
    /\ pending = <<>>
    /\ children = <<>>
    /\ waitIdx = 1
    /\ success = FALSE
    /\ pollResult = "None"
    /\ lookups = <<>>
    /\ completed = FALSE

Init ==
    /\ new
    /\ tracing = FALSE
    /\ m_addr = <<>>
    /\ extracted = [tag |-> "None", val |-> ""]

Next ==
    \/ poll
    \/ Spawn
    \/ ChildExit
    \/ Wait
    \/ Finish
    \/ inject_event_mdns
    \/ inject_event_kad
    \/ inject_event_identify
    \/ inject_event_other
    \/ Tick
    \/ ClockStepBack

Spec == Init /\ [][Next]_vars

-----------------------------------------------------------------------------
(* The orchestrator under a reactor that keeps calling poll while the     *)
(* clock advances: the clock is not set back, and poll is not postponed    *)
(* for ever.                                                               *)

LiveNext ==
    \/ poll
    \/ Spawn
    \/ ChildExit
    \/ Wait
    \/ Finish
    \/ inject_event_mdns
    \/ inject_event_kad
    \/ inject_event_identify
    \/ inject_event_other
    \/ Tick

LiveSpec == Init /\ [][LiveNext]_vars /\ WF_vars(poll)

-----------------------------------------------------------------------------
(* The event handlers under observation: the calls each of them makes are  *)
(* recorded in `trace`, from construction until poll starts to connect.    *)

HandlerInit ==
    /\ new
    /\ tracing = TRUE
    /\ m_addr = <<>>
    /\ extracted = [tag |-> "None", val |-> ""]

HandlerNext ==
    \/ poll
    \/ inject_event_mdns
    \/ inject_event_kad
    \/ inject_event_identify
    \/ inject_event_other

HandlerSpec == HandlerInit /\ [][HandlerNext]_vars

-----------------------------------------------------------------------------
(* The extractor on its own: host_addr_from_multiaddr applied to every     *)
(* multiaddr of at most MaxComponents components.                          *)

Components ==
    { Ip4(<<203, 0, 113, 5>>), Ip4(<<127, 0, 0, 1>>),
      Ip6(<<0, 0, 0, 0, 0, 0, 0, 1>>), Ip6(<<8193, 3512, 0, 0, 0, 0, 0, 1>>),
      Dns4("localhost"), Dns6("example.org"), Dnsaddr("example.net"),
      Tcp(22), Udp(53), P2p("QmTarget") }

ExtractInit ==
    /\ new
    /\ tracing = FALSE
    /\ m_addr \in UNION {[1..n -> Components] : n \in 0..MaxComponents}
    /\ extracted = [tag |-> "None", val |-> ""]

Extract ==
    /\ extracted.tag = "None"
    /\ extracted' = host_addr_from_multiaddr(m_addr)
    /\ UNCHANGED <<m_addr, orchVars>>

ExtractNext == Extract

ExtractSpec == ExtractInit /\ [][ExtractNext]_vars

-----------------------------------------------------------------------------
(* Vocabulary of the properties.                                           *)

\* the component kinds that bear a host
HostKinds == {"dnsaddr", "dns4", "dns6", "ip4", "ip6"}

\* positions of the host-bearing components of the multiaddr m
HostPositions(m) == {i \in DOMAIN m : m[i].k \in HostKinds}

\* the string form of a host-bearing component
HostText(p) ==
    CASE p.k = "ip4" -> FmtIp4(p.n)
      [] p.k = "ip6" -> FmtIp6(p.n)
      [] OTHER -> p.s

\* the hosts that must never be dialed
LoopbackLiterals == {"127.0.0.1", "::1", "localhost"}

\* the host of a multiaddr with exactly one host-bearing component
SoleHost(m) == HostText(m[CHOOSE i \in HostPositions(m) : TRUE])

\* the addresses of AddrTable (indices) with exactly one host-bearing
\* component, which is none of the three literals
Dialable ==
    {a \in DOMAIN AddrTable :
        /\ Cardinality(HostPositions(AddrTable[a])) = 1
        /\ SoleHost(AddrTable[a]) \notin LoopbackLiterals}

\* the host of each of them
DialableHost == [a \in Dialable |-> SoleHost(AddrTable[a])]

\* the cached addresses that extract to a host that may be dialed
DialableAddrs(S) == S \cap Dialable

\* the hosts for which the dispatch has invoked the connect command
Dialed == {children[i].addr : i \in DOMAIN children}

\* a dispatch has spawned for all its candidates, or has just ended
SpawnLoopDone ==
    \/ pc = "dispatch" /\ pending = <<>>
    \/ pollResult \in {"Ready", "Exit"}

SomeSpawned == \E i \in DOMAIN children : children[i].r = "Ok"

-----------------------------------------------------------------------------
(* Properties.                                                             *)

\* C1: any two consecutive DHT lookups for the target are at least one
\* cooldown (2 seconds of the clock) apart, and the stored timestamp is the
\* time of the last lookup.
C1_LookupsCooldownApart ==
    /\ \A i \in 1..(Len(lookups) - 1) : lookups[i + 1] - lookups[i] >= Cooldown
    /\ lookups # <<>> => querying = lookups[Len(lookups)]

C1_Witness == Len(lookups) >= 2 /\ pollResult = "Pending"

\* C2: a poll invoked while the cache holds an address of the target does
\* not return Pending, whatever the time since the last lookup.
C2_PollWithAddressesDispatches ==
    pollResult = "Pending" => cache[remote_peer] = {}

\* C3: a dispatch ends with exit(0) if and only if at least one connect
\* command spawned, whatever the commands' own exit codes; the process is
\* never terminated with another status, and not while a dispatch runs.
C3_ExitZeroIffSpawned ==
    /\ status = "exited" => exitCode = 0
    /\ pc = "dispatch" => status = "running"
    /\ pollResult \in {"Ready", "Exit"} => (status = "exited" <=> SomeSpawned)

C3_Witness ==
    /\ status = "exited"
    /\ \E i \in DOMAIN children : children[i].r = "Ok" /\ children[i].code = 255

\* C4: once a connect command has spawned for one host, none is spawned for
\* a later candidate host.
C4_StopsAtFirstSuccess ==
    \A i, j \in DOMAIN children :
        i < j /\ children[j].addr # children[i].addr => children[i].r # "Ok"

\* C5: at every moment at most one spawned connect command is running.
C5_AtMostOneRunning ==
    Cardinality({i \in DOMAIN children : children[i].st = "running"}) <= 1

\* C6: a dispatch without a spawned command returns Ready and leaves the
\* process running, and no later poll invokes the connect command again.
C6_NoConnectAfterReady ==
    /\ pollResult = "Ready" => status = "running" /\ ~SomeSpawned
    /\ completed => ~(pc = "dispatch" /\ children # <<>>)

\* C7: the connect command is never invoked with 127.0.0.1, ::1 or
\* localhost, and the hosts dialed by a dispatch are exactly the hosts of
\* the cached addresses with a single host component, minus these three.
C7_HostsDialed ==
    /\ Dialed \cap LoopbackLiterals = {}
    /\ SpawnLoopDone =>
          Dialed = {DialableHost[a] : a \in DialableAddrs(cache[remote_peer])}

C7_Witness ==
    /\ pc = "dispatch"
    /\ pending = <<>>
    /\ cache[remote_peer] = {1, 2, 3}
    /\ Dialed = {"203.0.113.5"}

\* C8: host_addr_from_multiaddr answers by the number of host-bearing
\* components: none is NoIPAddrInMultiaddr, one is Ok with its string
\* form, two or more is MultipleIPAddrInMultiaddr.
C8_ExtractClassifies ==
    extracted.tag # "None" =>
        LET n == Cardinality(HostPositions(m_addr))
        IN  /\ n = 0 => extracted = [tag |-> "NoIPAddrInMultiaddr", val |-> ""]
            /\ n = 1 => extracted = [tag |-> "Ok", val |-> SoleHost(m_addr)]
            /\ n >= 2 => extracted = [tag |-> "MultipleIPAddrInMultiaddr", val |-> ""]

C8_Witness ==
    /\ extracted = [tag |-> "Ok", val |-> "2001:db8::1"]
    /\ Len(m_addr) = 3

\* C9: a failed spawn neither ends the process nor the dispatch: every
\* candidate is still spawned for, and a later command that spawns makes
\* the process exit with status 0.
C9_SpawnFailureNotFatal ==
    /\ pc = "dispatch" =>
          /\ status = "running"
          /\ Len(children) + Len(pending)
                = Cardinality(DialableAddrs(cache[remote_peer]))
    /\ (/\ pollResult \in {"Ready", "Exit"}
        /\ \E i, j \in DOMAIN children :
              i < j /\ children[i].r = "Err" /\ children[j].r = "Ok")
       => status = "exited" /\ exitCode = 0

C9_Witness ==
    /\ status = "exited"
    /\ Len(children) = 2
    /\ children[1].r = "Err"
    /\ children[2].r = "Ok"
    /\ children[1].addr # children[2].addr

\* C10: a cached address whose host extraction fails is skipped: the host
\* of every other cached address that may be dialed is spawned for, or
\* still to be, in every dispatch.
C10_ExtractionFailureSkipped ==
    pc = "dispatch" =>
        \A a \in DialableAddrs(cache[remote_peer]) :
            \/ DialableHost[a] \in Dialed
            \/ \E i \in DOMAIN pending : pending[i] = DialableHost[a]

C10_Witness ==
    /\ pc = "dispatch"
    /\ pending = <<>>
    /\ cache[remote_peer] = {5, 6, 8}
    /\ Dialed = {"10.0.0.9"}

-----------------------------------------------------------------------------
(* The address cache.                                                      *)

-----------------------------------------------------------------------------
(* The throttle and the lookups.                                           *)

\* the step is a call of poll (what only poll does comes first)
PollStep ==
    /\ pc = "idle"
    /\ pc' = "dispatch" \/ pollResult' \in {"Pending", "Panic"}
    /\ poll

C13_DhtWakeLeadsToConnect ==
    [][(/\ woken
        /\ lookups # <<>>
        /\ now >= querying
        /\ cache[remote_peer] \subseteq KadAddrs(remote_peer)
        /\ DialableAddrs(cache[remote_peer]) # {}
        /\ PollStep)
       => /\ pc' = "dispatch"
          /\ \A a \in DialableAddrs(cache[remote_peer]) :
                \E i \in DOMAIN pending' : pending'[i] = DialableHost[a]
      ]_vars

C15_EmptyCachePollPending ==
    [][(cache[remote_peer] = {} /\ PollStep)
       => /\ pollResult' = "Pending"
          /\ pc' = "idle"
          /\ children' = <<>>
          /\ IF now - querying >= Cooldown
             THEN lookups' = Append(lookups, now) /\ querying' = now
             ELSE lookups' = lookups /\ querying' = querying
      ]_vars

-----------------------------------------------------------------------------
(* Construction.                                                           *)

\* C17: when the local-discovery service cannot be initialised, the
\* construction ends with the error MdnsInitialization and there is no
\* orchestrator: nothing is ever polled, looked up, recorded or spawned.
C17_MdnsFailureNoOrchestrator ==
    mdnsInit = "Err" =>
        /\ status = "MdnsInitialization"
        /\ pollResult = "None"
        /\ waker = "None"
        /\ lookups = <<>>
        /\ children = <<>>
        /\ \A p \in Peers : cache[p] = {}

C17_Witness ==
    /\ mdnsInit = "Err"
    /\ status = "MdnsInitialization"

-----------------------------------------------------------------------------
(* The waker.                                                              *)

\* C18: every poll, whichever way it ends, leaves in the slot the waker of
\* its own call: a waker stored by an earlier call is replaced and is not
\* invoked by the poll; the slot never holds more than that one waker.
C18_PollStoresItsWaker ==
    [][/\ PollStep =>
             /\ waker' = "Some"
             /\ wakerOf' = CurrentWaker
             /\ woken' = FALSE
       /\ wakerOf' \in {NoWaker, CurrentWaker}
       /\ (waker' = "None") <=> (wakerOf' = NoWaker)
      ]_vars

C18_Witness ==
    /\ cache[remote_peer] = {}
    /\ Len(lookups) = 2
    /\ pollResult = "Pending"
    /\ wakerOf = CurrentWaker

\* (an observed discovery handler leaves calls in `trace`: the formulas
\* below test that first, before the handler itself)

\* how many times the calls tr invoke a waker
Wakes(tr) == Cardinality({i \in DOMAIN tr : tr[i] = Call("wake", "", 0)})

\* the calls tr come from an event that names the peer p
Names(tr, p) == \E i \in DOMAIN tr : tr[i] = Call("wake_on_found", p, 0)

\* C19: a local-discovery or DHT discovery event that names the target
\* invokes the stored waker, if there is one, exactly once and leaves the
\* slot empty, so that no waker is invoked twice; an event that names
\* other peers only neither invokes the waker nor touches the slot.
C19_TargetEventWakesOnce ==
    [][(trace' # <<>> /\ (inject_event_mdns \/ inject_event_kad)) =>
          IF Names(trace', remote_peer)
          THEN /\ waker' = "None"
               /\ wakerOf' = NoWaker
               /\ Wakes(trace') = (IF waker = "Some" THEN 1 ELSE 0)
               /\ woken' = (woken \/ waker = "Some")
          ELSE /\ Names(trace', other_peer)
               /\ waker' = waker
               /\ wakerOf' = wakerOf
               /\ Wakes(trace') = 0
               /\ woken' = woken
      ]_vars

C19_Witness ==
    /\ trace = <<Call("wake_on_found", remote_peer, 0), Call("wake", "", 0)>>
    /\ waker = "None"
    /\ woken

RECURSIVE PairwiseCalls(_, _)
\* the calls the claim C20 asks for on a list of (peer, address) pairs when
\* the waker slot is `slot`: for each pair in turn the address is recorded,
\* a bootstrap is requested, and the wake is signalled for the target only
PairwiseCalls(list, slot) ==
    IF list = <<>> THEN <<>>
    ELSE LET peer_id == Head(list)[1]
             signalled == peer_id = remote_peer /\ slot = "Some"
         IN  <<Call("add_address", peer_id, Head(list)[2]),
               Call("bootstrap", "", 0),
               Call("wake_on_found", peer_id, 0)>>
             \o (IF signalled THEN <<Call("wake", "", 0)>> ELSE <<>>)
             \o PairwiseCalls(Tail(list),
                              IF peer_id = remote_peer THEN "None" ELSE slot)

\* C20: for every (peer, address) pair of a local-discovery event, known
\* already or not, of the target or of another peer, the handler records
\* the address, then requests a bootstrap of the DHT, then signals the
\* wake, which invokes a waker only for the target.
C20_MdnsPairOrder ==
    [][(trace' # <<>> /\ inject_event_mdns) =>
          \E ids \in MdnsLists :
             LET list == [i \in DOMAIN ids |-> MdnsReports[ids[i]]]
             IN  /\ trace' = PairwiseCalls(list, waker)
                 /\ \A i \in DOMAIN list : list[i][2] \in cache'[list[i][1]]
      ]_vars

C20_Witness ==
    /\ trace = <<Call("add_address", remote_peer, 1), Call("bootstrap", "", 0),
                 Call("wake_on_found", remote_peer, 0)>>
    /\ woken
    /\ cache[remote_peer] = {1}

-----------------------------------------------------------------------------
(* Frames.                                                                 *)

\* C21 as stated: the address cache changes only in the handlers of the
\* local-discovery and DHT discovery events.
C21_OnlyDiscoveryMutatesCache ==
    [][cache' # cache => (inject_event_mdns \/ inject_event_kad)]_vars

\* C21: the address cache changes only in the handlers of the
\* local-discovery, DHT discovery and identify-received events: poll, the
\* connect commands, the other events and the clock leave it as it is.
C21_OnlyEventsMutateCache ==
    [][cache' # cache =>
          (inject_event_mdns \/ inject_event_kad \/ inject_event_identify)
      ]_vars

C21_Witness ==
    /\ identified = {3}
    /\ reported = {}
    /\ cache[remote_peer] = {3}
    /\ pc = "dispatch"
    /\ pending = <<>>
    /\ children = <<>>

-----------------------------------------------------------------------------
(* The connect commands, continued.                                        *)

\* C22: when poll returns from a dispatch or ends the process, every
\* connect command that was spawned has been waited for and has exited:
\* none is left running.
C22_SpawnedAreWaitedFor ==
    (pollResult \in {"Ready", "Exit"} \/ status = "exited") =>
        \A i \in DOMAIN children :
            children[i].r = "Ok" =>
                children[i].st = "exited" /\ children[i].code # -1

C22_Witness ==
    /\ status = "exited"
    /\ Len(children) = 2
    /\ children[1].r = "Ok" /\ children[1].code = 0
    /\ children[2].r = "Ok" /\ children[2].code = 255

\* C23: within one dispatch the connect command is invoked at most once
\* for each host, also when several cached addresses have the same host.
C23_OncePerHost ==
    \A i, j \in DOMAIN children :
        i # j => children[i].addr # children[j].addr

-----------------------------------------------------------------------------
(* The extractor, continued.                                               *)

\* the host-bearing components of the multiaddr m, in their order
HostPart(m) == SelectSeq(m, LAMBDA p : p.k \in HostKinds)

\* components that bear no host: a transport with its port, a peer id
Decorations == {Tcp(2222), Udp(4001), P2p("QmOther")}

\* C24: what host_addr_from_multiaddr answers depends on the host-bearing
\* components only: the address, its host-bearing components alone, and
\* the address with a transport, port or peer-id component put before or
\* behind it all give the same answer, and asking again gives it again.
C24_ExtractIgnoresNonHost ==
    extracted.tag # "None" =>
        /\ extracted = host_addr_from_multiaddr(m_addr)
        /\ extracted = host_addr_from_multiaddr(HostPart(m_addr))
        /\ \A d \in Decorations :
              /\ extracted = host_addr_from_multiaddr(Append(m_addr, d))
              /\ extracted = host_addr_from_multiaddr(<<d>> \o m_addr)

C24_Witness ==
    /\ Len(m_addr) = 3
    /\ m_addr[1].k = "udp"
    /\ m_addr[2].k = "ip6"
    /\ m_addr[3].k = "p2p"
    /\ extracted.tag = "Ok"
    /\ extracted.val = "::1"

-----------------------------------------------------------------------------
(* The waker, continued.                                                   *)

\* C25: no wake-up is lost: once a poll has returned Pending, when the
\* handler of a discovery event that names the target returns, the waker
\* that poll stored has been invoked, by this event or by an earlier one
\* since that poll, and is no longer in the slot.
C25_NoLostWakeup ==
    [][(trace' # <<>> /\ Names(trace', remote_peer) /\ lookups # <<>>
        /\ (inject_event_mdns \/ inject_event_kad))
       => /\ woken'
          /\ waker' = "None"
          /\ (waker = "Some") # woken
      ]_vars

C25_Witness ==
    /\ trace = <<Call("wake_on_found", remote_peer, 0)>>
    /\ lookups # <<>>
    /\ woken
    /\ waker = "None"

-----------------------------------------------------------------------------
(* The throttle, continued.                                                *)

\* C26: poll never aborts because of the clock: whatever the clock reads,
\* also earlier than `querying`, poll returns Pending or Ready or exits
\* after a spawn, and the process does not panic.
C26_PollNeverPanics ==
    status # "panicked" /\ pollResult # "Panic"

\* C27: `querying` changes and a lookup is issued in poll only, never in
\* the handler of a local-discovery, DHT or identify event; the two happen
\* together, and `querying` then becomes the present, which is later than
\* it was.
C27_OnlyPollMovesThrottle ==
    [][(querying' # querying \/ lookups' # lookups) =>
          /\ PollStep
          /\ lookups' = Append(lookups, now)
          /\ querying' = now
          /\ querying' > querying
      ]_vars

C27_Witness ==
    /\ lookups = <<StartTime, StartTime + Cooldown>>
    /\ querying = StartTime + Cooldown
    /\ cache[other_peer] = {8}
    /\ cache[remote_peer] = {3}
    /\ identified = {3}

------------------------------------------------------------------------------
(* The identify event.                                                      *)

\* the text of the multiaddr a contains 127.0.0.1
TextHasLoopback(a) == Contains(MultiaddrToString(AddrTable[a]), "127.0.0.1")

\* the calls tr hold add_address for the peer p and the multiaddr a
Adds(tr, p, a) == \E i \in DOMAIN tr : tr[i] = Call("add_address", p, a)

\* C28: the handler of an identify-received event for a peer P with the
\* listen addresses L calls add_address for every address of L whose text
\* lacks 127.0.0.1, after which P's addresses hold it, and for no address
\* of L whose text contains 127.0.0.1; it makes no call of wake_on_found or
\* of the waker and leaves the waker slot as it was, also for the target.
C28_IdentifyAddsNonLoopback ==
    [][(pollResult' = "None" /\ reported' = reported /\ inject_event_identify) =>
          \A p \in Peers : \A l \in ListenLists[p] :
             identify_received(p, l) =>
              /\ \A i \in DOMAIN l :
                    IF TextHasLoopback(l[i])
                    THEN ~Adds(trace', p, l[i])
                    ELSE Adds(trace', p, l[i]) /\ l[i] \in cache'[p]
              /\ Wakes(trace') = 0
              /\ \A q \in Peers : ~Names(trace', q)
              /\ waker' = waker
              /\ wakerOf' = wakerOf
              /\ woken' = woken
      ]_vars

C28_Witness ==
    /\ trace = <<Call("add_address", remote_peer, 3)>>
    /\ cache[remote_peer] = {3}
    /\ identified = {3}
    /\ waker = "Some"
    /\ ~woken
    /\ lookups = <<StartTime>>

====
